---- MODULE Spec2Model ----
(***************************************************************************)
(* Model of temp-auth-parser: the CNC1Auth session (auth.py), the          *)
(* PageParser record extractor (page_parser.py) and the CatalogParser      *)
(* link extractor (catalog_parser.py).                                     *)
(*                                                                         *)
(* Python's None is the string "None"; a call's return value is a string   *)
(* ("True", "False", "None", "Response", "Raised") so that values of one   *)
(* field are always comparable.  The network is the environment: every     *)
(* request gets an outcome, either a transport error (requests raises a    *)
(* RequestException) or a response with a status code and a body.          *)
(***************************************************************************)
EXTENDS Integers, Sequences, FiniteSets, TLC

VARIABLES
    is_authenticated, \* CNC1Auth._is_authenticated
    posts,            \* POST requests sent on the session's transport
    gets,             \* GET requests sent on the session's transport
    plain,            \* GET requests sent by requests.get (no session)
    calls,            \* calls of login()/get() made by the driver so far
    lastCall,         \* the last login()/get() call: what it saw and returned
    loginSucceeded,   \* history: some login() has returned True
    hasAuth,          \* the extractor was constructed with an auth object
    urls,             \* self.urls of the extractor
    net,              \* the environment's answer to the request for urls[i]
    data,             \* PageParser.data
    pidx,             \* PageParser.parse: position of the for loop
    ppc,              \* PageParser.parse: "idle", "loop", "returned", "raised"
    table,            \* what the last PageParser.parse() returned
    firstTable,       \* what the first PageParser.parse() returned
    pcalls,           \* completed PageParser.parse() calls
    result,           \* CatalogParser.result
    cidx,             \* CatalogParser.parse: position of the for loop
    cpc,              \* CatalogParser.parse: "idle", "loop", "returned"
    pageFetch,        \* PageParser's last fetch: position, request, verdict
    catalogFetch      \* CatalogParser's last fetch: position, request, verdict

vars == <<is_authenticated, posts, gets, plain, calls, lastCall, loginSucceeded,
          hasAuth, urls, net, data, pidx, ppc, table, firstTable, pcalls,
          result, cidx, cpc, pageFetch, catalogFetch>>

authVars == <<is_authenticated, posts, gets, calls, lastCall, loginSucceeded>>
inputVars == <<hasAuth, urls, net>>
pageVars == <<data, pidx, ppc, table, firstTable, pcalls, pageFetch>>
catalogVars == <<result, cidx, cpc, catalogFetch>>

----------------------------------------------------------------------------
(* Bounds *)

MaxCalls == 4
MaxUrls == 2
MaxParseCalls == 2

----------------------------------------------------------------------------
(* The environment: HTML documents, responses, transport errors *)

None == "None"

\* An HTML document as the extractors see it: the text of its first h1 (None:
\* no h1), the text of its first .price element, and the href attribute of each
\* element the link selector matches (None: the element has no href).
NoPage == [h1 |-> None, price |-> None, hrefs |-> <<>>]
FullPage == [h1 |-> " Widget ", price |-> "9.99", hrefs |-> <<"c.html", "  ", "https://other.com/y">>]
Pages ==
    { FullPage,
      [h1 |-> "Widget",   price |-> None,   hrefs |-> <<"https://other.com/y">>],
      [h1 |-> None,       price |-> None,   hrefs |-> <<None, "/x">>],
      [h1 |-> "u1",       price |-> "1.00", hrefs |-> <<"/x">>],
      NoPage }

URLs == {"u1", "u2"}

TransportError == [kind |-> "error", status |-> 0, page |-> NoPage]
Response(status, page) == [kind |-> "response", status |-> status, page |-> page]
NoResponse == [kind |-> "none", status |-> 0, page |-> NoPage]

\* What a GET may come back with.
Outcomes ==
    {TransportError}
    \cup {Response(200, p) : p \in Pages}
    \cup {Response(s, FullPage) : s \in {204, 300, 404}}

\* The login page's answer: a transport error, or a status and a body, the body
\* a sequence of words.
FailureMarker == "Oshibka"   \* the literal the code looks for in response.text
LoginBodies == { <<"ok">>, <<"Oshibka", "avtorizacii">>, <<>> }
PostOutcomes ==
    { [kind |-> "error", status |-> 0, text |-> <<>>] }
    \cup { [kind |-> "response", status |-> s, text |-> t] :
             s \in {200, 204, 403, 500}, t \in LoginBodies }

\* `marker in text`
Contains(text, marker) == \E i \in 1..Len(text) : text[i] = marker

----------------------------------------------------------------------------
(* auth.py: CNC1Auth *)

\* auth.py:42, the test that decides a login.  A transport error never gets
\* here: session.post raised.
LoginAccepts2xx(o) ==
    o.kind = "response" /\ o.status \in 200..299 /\ ~Contains(o.text, FailureMarker)
LoginAccepts(o) ==
    o.kind = "response" /\ o.status = 200 /\ ~Contains(o.text, FailureMarker)

\* The state login() leaves: set on success, otherwise not touched.
LoginStateAssigned(cur, o) == LoginAccepts(o)
LoginState(cur, o) == IF LoginAccepts(o) THEN TRUE ELSE cur

\* What login() gives its caller: session.post is called outside any try, so a
\* transport error leaves login() as an exception.
LoginReturn(o) ==
    IF o.kind = "error" THEN "Raised"
    ELSE IF LoginAccepts(o) THEN "True" ELSE "False"

\* auth.py:51, get() gives up before any request when not authenticated.
GetNeverGivesUp(auth) == FALSE
GetGivesUp(auth) == ~auth

\* is_authenticated(): the state query.
IsAuthenticated == is_authenticated

Login(o) ==
    /\ calls < MaxCalls
    /\ calls' = calls + 1
    /\ posts' = posts + 1
    /\ is_authenticated' = LoginState(is_authenticated, o)
    /\ loginSucceeded' = (loginSucceeded \/ LoginReturn(o) = "True")
    /\ lastCall' = [op |-> "login", before |-> is_authenticated, ret |-> LoginReturn(o),
                    kind |-> o.kind, status |-> o.status,
                    marker |-> Contains(o.text, FailureMarker),
                    sent |-> 1]
    /\ UNCHANGED <<gets, plain>>

Get(o) ==
    /\ calls < MaxCalls
    /\ calls' = calls + 1
    /\ IF GetGivesUp(is_authenticated)
         THEN /\ gets' = gets
              /\ lastCall' = [op |-> "get", before |-> is_authenticated, ret |-> None,
                              kind |-> "none", status |-> 0, marker |-> FALSE,
                              sent |-> 0]
         ELSE /\ gets' = gets + 1
              /\ lastCall' = [op |-> "get", before |-> is_authenticated,
                              ret |-> IF o.kind = "error" THEN "Raised" ELSE "Response",
                              kind |-> o.kind, status |-> o.status, marker |-> FALSE,
                              sent |-> 1]
    /\ UNCHANGED <<is_authenticated, loginSucceeded, posts, plain>>

NoCall == [op |-> "none", before |-> FALSE, ret |-> None, kind |-> "none",
           status |-> 0, marker |-> FALSE, sent |-> 0]

AuthInit ==
    /\ is_authenticated = FALSE
    /\ loginSucceeded = FALSE
    /\ posts = 0
    /\ gets = 0
    /\ plain = 0
    /\ calls = 0
    /\ lastCall = NoCall

\* No call of parse() has returned yet.
NoTable == [kind |-> "none", index |-> <<>>, rows |-> <<>>]
\* CatalogParser.result after __init__: the empty dict.
NoLinks == [k \in {} |-> <<>>]

\* No page has been fetched yet.
NoFetch == [pos |-> 0, route |-> "none", timeout |-> None, verdict |-> "none"]

NoExtractor ==
    /\ hasAuth = FALSE
    /\ urls = <<>>
    /\ net = <<>>
    /\ data = <<>>
    /\ pidx = 0
    /\ ppc = "idle"
    /\ table = NoTable
    /\ firstTable = NoTable
    /\ pcalls = 0
    /\ result = NoLinks
    /\ cidx = 0
    /\ cpc = "idle"
    /\ pageFetch = NoFetch
    /\ catalogFetch = NoFetch

InitAuth == AuthInit /\ NoExtractor

DoLogin == (\E o \in PostOutcomes : Login(o)) /\ UNCHANGED <<inputVars, pageVars, catalogVars>>
DoGet == (\E o \in Outcomes : Get(o)) /\ UNCHANGED <<inputVars, pageVars, catalogVars>>

NextAuth == DoLogin \/ DoGet

SpecAuth == InitAuth /\ [][NextAuth]_vars

----------------------------------------------------------------------------
(* The extractors' inputs *)

\* The url lists an extractor may be constructed with (duplicates allowed).
UrlLists == UNION { [1..n -> URLs] : n \in 0..MaxUrls }

\* The selectors of the configuration: column name and CSS selector, in the
\* dict's order.
selectors == << [name |-> "Title", selector |-> "h1"],
                [name |-> "Price", selector |-> ".price"] >>
SelectorNames == { selectors[k].name : k \in 1..Len(selectors) }
RowKeys == {"URL"} \cup SelectorNames

\* An extractor is built for a url list, with or without an auth object; the
\* auth object, if any, is in either state.  net[i] is what the request for
\* urls[i] comes back with, the same whenever it is asked again.
ExtractorInit ==
    /\ hasAuth \in BOOLEAN
    /\ is_authenticated \in (IF hasAuth THEN BOOLEAN ELSE {FALSE})
    /\ loginSucceeded = is_authenticated
    /\ posts = 0 /\ gets = 0 /\ plain = 0
    /\ calls = 0 /\ lastCall = NoCall
    /\ urls \in UrlLists
    /\ net \in [1..Len(urls) -> Outcomes]
    /\ data = <<>>
    /\ pidx = 0
    /\ ppc = "idle"
    /\ table = NoTable
    /\ firstTable = NoTable
    /\ pcalls = 0
    /\ result = NoLinks
    /\ cidx = 0
    /\ cpc = "idle"
    /\ pageFetch = NoFetch
    /\ catalogFetch = NoFetch

\* str.strip() / get_text(strip=True) on the texts of the documents.
Strip(t) ==
    CASE t = " Widget " -> "Widget"
      [] t = "  " -> ""
      [] OTHER -> t

\* requests' Response.ok: no 4xx or 5xx status.
Ok(r) == r.status < 400

\* `self.auth and self.auth.is_authenticated()`
UsesSession(has, auth) == has /\ auth

\* CNC1Auth.get as a function of the state and of what the transport does; a
\* transport error is the exception it lets through.
AuthGet(auth, o) == IF GetGivesUp(auth) THEN NoResponse ELSE o

----------------------------------------------------------------------------
(* page_parser.py: PageParser *)

\* _fetch_page: through the session or a plain requests.get; a RequestException
\* becomes None.
PageFetchPage(has, auth, o) ==
    LET r == IF UsesSession(has, auth) THEN AuthGet(auth, o) ELSE o
    IN  IF r.kind = "error" THEN NoResponse ELSE r

\* The request _fetch_page makes: self.auth.get(url) or requests.get(url),
\* neither with a timeout.
PageRequest(has, auth) ==
    [route |-> IF UsesSession(has, auth) THEN "session" ELSE "plain",
     timeout |-> None]

\* parse: `response is None or not response.ok`
PageUnavailableNoneOnly(r) == r.kind = "none"
PageUnavailable(r) == r.kind = "none" \/ ~Ok(r)

\* soup.select_one(selector): the first matching element's text, None without
\* a match.
SelectOne(page, selector) ==
    CASE selector = "h1" -> page.h1
      [] selector = ".price" -> page.price
      [] OTHER -> None

\* The value _parse_page stores for a selector.
FieldValue(page, selector) ==
    IF SelectOne(page, selector) # None THEN Strip(SelectOne(page, selector)) ELSE None

\* The selector a column name stands for (names are the dict's keys: unique).
SelectorOf(name) ==
    (CHOOSE k \in 1..Len(selectors) : selectors[k].name = name)

\* _parse_page: the row {'URL': url} with every selector's column assigned.
ParsedRow(url, page) ==
    [c \in RowKeys |->
        IF c \in SelectorNames
          THEN FieldValue(page, selectors[SelectorOf(c)].selector)
          ELSE url]

\* _add_empty_row: the row {'URL': url} updated with None for every selector.
EmptyRow(url) == [c \in RowKeys |-> IF c \in SelectorNames THEN None ELSE url]

AddEmptyRowSkipped(d, url) == d
AddEmptyRow(d, url) == Append(d, EmptyRow(url))

ParsePage(d, url, page) == Append(d, ParsedRow(url, page))

\* _build_dataframe: pd.DataFrame(self.data).set_index('URL').  The frame of an
\* empty list has no columns, and set_index raises KeyError; otherwise the rows
\* keep their order and the URL column becomes the (non-unique) index.
BuildDataframe(d) ==
    IF d = <<>>
      THEN [kind |-> "KeyError", index |-> <<>>, rows |-> <<>>]
      ELSE [kind |-> "table",
            index |-> [k \in 1..Len(d) |-> d[k]["URL"]],
            rows |-> [k \in 1..Len(d) |-> [c \in DOMAIN d[k] \ {"URL"} |-> d[k][c]]]]

\* The request of one loop iteration goes out on the session or plainly.
CountRequest ==
    IF UsesSession(hasAuth, is_authenticated)
      THEN gets' = gets + (IF GetGivesUp(is_authenticated) THEN 0 ELSE 1) /\ plain' = plain
      ELSE plain' = plain + 1 /\ gets' = gets

\* A call of parse() enters the loop; self.data is what earlier calls left.
PageParseCall ==
    /\ ppc \in {"idle", "returned", "raised"}
    /\ pcalls < MaxParseCalls
    /\ ppc' = "loop"
    /\ pidx' = 1
    /\ UNCHANGED <<data, table, firstTable, pcalls, pageFetch>>
    /\ UNCHANGED <<authVars, plain, inputVars, catalogVars>>

\* One iteration of parse()'s loop, for urls[pidx].
PageParseUrl ==
    /\ ppc = "loop"
    /\ pidx <= Len(urls)
    /\ LET response == PageFetchPage(hasAuth, is_authenticated, net[pidx])
       IN  \/ /\ PageUnavailable(response)
              /\ data' = AddEmptyRow(data, urls[pidx])
           \/ /\ ~PageUnavailable(response)
              /\ data' = ParsePage(data, urls[pidx], response.page)
    /\ pageFetch' =
          [pos |-> pidx,
           route |-> PageRequest(hasAuth, is_authenticated).route,
           timeout |-> PageRequest(hasAuth, is_authenticated).timeout,
           verdict |-> IF PageUnavailable(PageFetchPage(hasAuth, is_authenticated, net[pidx]))
                         THEN "unreachable" ELSE "available"]
    /\ CountRequest
    /\ pidx' = pidx + 1
    /\ UNCHANGED <<ppc, table, firstTable, pcalls>>
    /\ UNCHANGED <<is_authenticated, posts, calls, lastCall, loginSucceeded>>
    /\ UNCHANGED <<inputVars, catalogVars>>

\* The loop is over: parse() returns _build_dataframe(), or its KeyError.
PageReturn ==
    /\ ppc = "loop"
    /\ pidx > Len(urls)
    /\ table' = BuildDataframe(data)
    /\ ppc' = IF table'.kind = "KeyError" THEN "raised" ELSE "returned"
    /\ firstTable' = IF pcalls = 0 THEN table' ELSE firstTable
    /\ pcalls' = pcalls + 1
    /\ UNCHANGED <<data, pidx, pageFetch>>
    /\ UNCHANGED <<authVars, plain, inputVars, catalogVars>>

InitPage == ExtractorInit
NextPage == PageParseCall \/ PageParseUrl \/ PageReturn
SpecPage == InitPage /\ [][NextPage]_vars

----------------------------------------------------------------------------
(* catalog_parser.py: CatalogParser *)

\* _fetch_page: as PageParser's, the plain GET with timeout=10; a
\* RequestException becomes None.
CatalogFetchPage(has, auth, o) ==
    LET r == IF UsesSession(has, auth) THEN AuthGet(auth, o) ELSE o
    IN  IF r.kind = "error" THEN NoResponse ELSE r

\* The request _fetch_page makes: self.auth.get(url), or
\* requests.get(url, timeout=10).
CatalogRequest(has, auth) ==
    [route |-> IF UsesSession(has, auth) THEN "session" ELSE "plain",
     timeout |-> IF UsesSession(has, auth) THEN None ELSE "10"]

\* parse: `response is None or response.status_code != 200`
CatalogUnavailable(r) == r.kind = "none" \/ r.status # 200

\* _get_page_key: the stripped text of the first h1, the url without one.
GetPageKey(page, url) == IF page.h1 # None THEN Strip(page.h1) ELSE url

\* urljoin(base_url, href): an absolute reference passes through, a relative
\* one is resolved against the page's url (here: kept with it).
UrlJoin(base, href) ==
    IF href = "https://other.com/y" THEN <<href>> ELSE <<base, href>>

\* _extract_links: in document order, the absolute url of every matched
\* element that has an href which does not strip to the empty string.
RECURSIVE ExtractFrom(_, _)
ExtractFrom(hrefs, base) ==
    IF hrefs = <<>> THEN <<>>
    ELSE LET href == Head(hrefs)
             rest == ExtractFrom(Tail(hrefs), base)
         IN  IF href # None /\ Strip(href) # ""
               THEN <<UrlJoin(base, Strip(href))>> \o rest
               ELSE rest
ExtractLinks(page, base) == ExtractFrom(page.hrefs, base)

\* self.result[key] = links
StoreMerged(res, key, links) ==
    [k \in DOMAIN res \cup {key} |->
        IF k = key THEN (IF key \in DOMAIN res THEN res[key] ELSE <<>>) \o links
        ELSE res[k]]
Store(res, key, links) ==
    [k \in DOMAIN res \cup {key} |-> IF k = key THEN links ELSE res[k]]

\* _add_empty_result: self.result[url] = []
AddNoResult(res, url) == res
AddEmptyResult(res, url) == Store(res, url, <<>>)

\* A call of parse() enters the loop.
CatalogParseCall ==
    /\ cpc = "idle"
    /\ cpc' = "loop"
    /\ cidx' = 1
    /\ UNCHANGED <<result, catalogFetch>>
    /\ UNCHANGED <<authVars, plain, inputVars, pageVars>>

\* One iteration of parse()'s loop, for urls[cidx].
CatalogParseUrl ==
    /\ cpc = "loop"
    /\ cidx <= Len(urls)
    /\ LET response == CatalogFetchPage(hasAuth, is_authenticated, net[cidx])
           url == urls[cidx]
       IN  \/ /\ CatalogUnavailable(response)
              /\ result' = AddEmptyResult(result, url)
           \/ /\ ~CatalogUnavailable(response)
              /\ result' = Store(result, GetPageKey(response.page, url),
                                 ExtractLinks(response.page, url))
    /\ catalogFetch' =
          [pos |-> cidx,
           route |-> CatalogRequest(hasAuth, is_authenticated).route,
           timeout |-> CatalogRequest(hasAuth, is_authenticated).timeout,
           verdict |-> IF CatalogUnavailable(CatalogFetchPage(hasAuth, is_authenticated, net[cidx]))
                         THEN "unreachable" ELSE "available"]
    /\ CountRequest
    /\ cidx' = cidx + 1
    /\ UNCHANGED cpc
    /\ UNCHANGED <<is_authenticated, posts, calls, lastCall, loginSucceeded>>
    /\ UNCHANGED <<inputVars, pageVars>>

\* The loop is over: parse() returns self.result.
CatalogReturn ==
    /\ cpc = "loop"
    /\ cidx > Len(urls)
    /\ cpc' = "returned"
    /\ UNCHANGED <<result, cidx, catalogFetch>>
    /\ UNCHANGED <<authVars, plain, inputVars, pageVars>>

InitCatalog == ExtractorInit
NextCatalog == CatalogParseCall \/ CatalogParseUrl \/ CatalogReturn
SpecCatalog == InitCatalog /\ [][NextCatalog]_vars

----------------------------------------------------------------------------
(* Both extractors, built for the same url list and auth object, against the
   same pages *)

InitExtractors == ExtractorInit
NextExtractors == NextPage \/ NextCatalog
SpecExtractors == InitExtractors /\ [][NextExtractors]_vars

----------------------------------------------------------------------------
(* Claims about CNC1Auth, checked under SpecAuth *)

\* C1: a get() made while no login() has yet succeeded returns None and sends
\* no request: the transport's GET count (and POST count) is what it was
\* before the call.
C1_UnauthenticatedGetSendsNothing ==
    [][(calls' = calls + 1 /\ lastCall'.op = "get" /\ ~loginSucceeded)
         => (lastCall'.ret = None /\ gets' = gets /\ posts' = posts /\ plain' = plain)]_vars

\* C1 witness: a get() that returned None after a login() that failed, with no
\* GET sent so far.
C1_Witness ==
    /\ lastCall.op = "get" /\ lastCall.ret = None
    /\ ~loginSucceeded /\ posts >= 1 /\ gets = 0

\* C2 (the claim as stated): a login() that does not succeed leaves the state
\* as it was, returns False, and lets no exception out.
C2_FailedLoginReturnsFalse ==
    (lastCall.op = "login" /\ lastCall.ret # "True")
        => (lastCall.ret = "False" /\ IsAuthenticated = lastCall.before)

\* C3 (the claim as stated): for the response login() received, it returns True
\* and is authenticated exactly when the status is any 2xx and the body has no
\* failure marker, and returns False for every other response.
C3_SuccessIffAny2xxAndNoMarker ==
    (lastCall.op = "login" /\ lastCall.kind = "response")
        => IF lastCall.status \in 200..299 /\ ~lastCall.marker
             THEN lastCall.ret = "True" /\ IsAuthenticated
             ELSE lastCall.ret = "False"

\* C3 (amended): login() returns True, and moves the session to authenticated,
\* exactly when it received a response with status code 200 whose body has no
\* failure marker; any other response makes it return False, and in no other
\* case does it return True or change the session state.
C3_SuccessIffStatus200AndNoMarker ==
    lastCall.op = "login"
        => /\ (lastCall.ret = "True")
                <=> (lastCall.kind = "response" /\ lastCall.status = 200 /\ ~lastCall.marker)
           /\ lastCall.ret = "True" => IsAuthenticated
           /\ lastCall.ret # "True" => IsAuthenticated = lastCall.before
           /\ (lastCall.kind = "response" /\ lastCall.ret # "True") => lastCall.ret = "False"

\* C3 witness: a 204 response without the failure marker, which login() turned
\* down on a session that stayed unauthenticated.
C3_Witness ==
    /\ lastCall.op = "login" /\ lastCall.kind = "response"
    /\ lastCall.status = 204 /\ ~lastCall.marker
    /\ lastCall.ret = "False" /\ ~IsAuthenticated

\* C4: the session starts unauthenticated and is authenticated from the first
\* successful login() on, whatever login() and get() calls follow: the state
\* query is true exactly when some login() has succeeded.
C4_OneWay == IsAuthenticated = loginSucceeded

\* C4 witness: a login() that failed on a session an earlier login() had
\* authenticated, which is still authenticated.
C4_Witness ==
    /\ lastCall.op = "login" /\ lastCall.ret = "False"
    /\ lastCall.before /\ loginSucceeded /\ IsAuthenticated

----------------------------------------------------------------------------
(* Claims about PageParser, checked under SpecPage *)

\* What the claims call a failed fetch: a transport failure (no response), or
\* a response with an error status (4xx, 5xx).
FetchFailed(o) == o.kind = "error" \/ (o.kind = "response" /\ o.status >= 400)

\* C5: the table an extractor's parse() returns has one row per occurrence of
\* a url in the input, and the rows' URL values are the input sequence itself,
\* whichever fetches failed.
C5_RowsMirrorUrls ==
    (ppc = "returned" /\ pcalls = 1)
        => /\ table.kind = "table"
           /\ Len(table.rows) = Len(urls)
           /\ table.index = urls

\* C5 witness: a returned table for a url given twice, whose first fetch failed
\* and whose second fetch was parsed.
C5_Witness ==
    /\ ppc = "returned" /\ pcalls = 1
    /\ Len(urls) >= 2 /\ urls[1] = urls[2]
    /\ FetchFailed(net[1]) /\ ~FetchFailed(net[2])
    /\ table.rows[2]["Title"] # None

C7_ParseAlwaysReturnsTable ==
    /\ ppc # "raised"
    /\ ppc = "returned"
         => (table.kind = "table"
             /\ \A i \in 1..Len(urls) : \E k \in 1..Len(table.index) : table.index[k] = urls[i])

\* C10 (the claim as stated): with the same page content, url list and
\* selectors, a second parse() on the same extractor returns the table the
\* first returned.
C10_SecondParseEqualsFirst ==
    (ppc = "returned" /\ pcalls >= 2) => table = firstTable

----------------------------------------------------------------------------
(* Claims about CatalogParser, checked under SpecCatalog *)

\* What parse() does with urls[i]: the response it gets, the key it writes
\* and the link list it writes under it.
ResponseAt(i) == CatalogFetchPage(hasAuth, is_authenticated, net[i])
KeyAt(i) ==
    IF CatalogUnavailable(ResponseAt(i)) THEN urls[i]
    ELSE GetPageKey(ResponseAt(i).page, urls[i])
LinksAt(i) ==
    IF CatalogUnavailable(ResponseAt(i)) THEN <<>>
    ELSE ExtractLinks(ResponseAt(i).page, urls[i])

\* A page that was unavailable or came with a status outside 2xx.
NotFetched(o) == o.kind = "error" \/ (o.kind = "response" /\ o.status \notin 200..299)

\* C8 (the claim as stated): in the returned LinkSet every url whose page was
\* unavailable or non-success (here: a transport failure or an error status,
\* non-success on any reading) has an entry under the url itself, with an
\* empty link list.
C8_FailedUrlHasEmptyEntry ==
    cpc = "returned"
        => \A i \in 1..Len(urls) :
              FetchFailed(net[i]) => (urls[i] \in DOMAIN result /\ result[urls[i]] = <<>>)

\* C8 (amended): in the returned LinkSet every url whose page was unavailable
\* or non-success (a transport failure, or any status outside 2xx) has an
\* entry under the url itself; its link list is empty
\* unless a later url of the input derived the same key, and then it is that
\* later url's list.
C8_FailedUrlHasEntry ==
    cpc = "returned"
        => \A i \in 1..Len(urls) :
              NotFetched(net[i])
                => /\ urls[i] \in DOMAIN result
                   /\ result[urls[i]] # <<>>
                        => \E j \in (i + 1)..Len(urls) :
                              KeyAt(j) = urls[i] /\ result[urls[i]] = LinksAt(j)

\* C8 witness: a url whose fetch failed, and a later page that derived the
\* same key and left its links under it.
C8_Witness ==
    /\ cpc = "returned"
    /\ Len(urls) >= 2
    /\ NotFetched(net[1]) /\ ~NotFetched(net[2])
    /\ KeyAt(2) = urls[1]
    /\ result[urls[1]] = LinksAt(2) /\ result[urls[1]] # <<>>

\* C9: the returned LinkSet has one entry per distinct derived key, holding
\* the link list of the last input url that derived the key: a later write
\* replaces an earlier one, lists are never merged.
C9_LastWriteWins ==
    cpc = "returned"
        => /\ DOMAIN result = { KeyAt(i) : i \in 1..Len(urls) }
           /\ \A k \in DOMAIN result :
                \E i \in 1..Len(urls) :
                    /\ KeyAt(i) = k
                    /\ \A j \in (i + 1)..Len(urls) : KeyAt(j) # k
                    /\ result[k] = LinksAt(i)

\* C9 witness: two different urls whose pages share a heading (up to
\* whitespace) and have different, non-empty link lists; the entry is the
\* second one's.
C9_Witness ==
    /\ cpc = "returned"
    /\ Len(urls) >= 2 /\ urls[1] # urls[2]
    /\ KeyAt(1) = KeyAt(2) /\ KeyAt(1) = "Widget"
    /\ LinksAt(1) # <<>> /\ LinksAt(2) # <<>> /\ LinksAt(1) # LinksAt(2)
    /\ result[KeyAt(1)] = LinksAt(2)

----------------------------------------------------------------------------
(* Claims about both extractors, checked under SpecExtractors *)

\* C11 (the claim as stated): for the same url, auth object and fetch outcome,
\* both extractors send the request the same way, through the session exactly
\* when one is given and authenticated and otherwise as a plain GET with a
\* bounded timeout, and both reach the same verdict: available or unreachable.
C11_SharedFetchPolicy ==
    (pageFetch.pos > 0 /\ pageFetch.pos = catalogFetch.pos)
        => /\ pageFetch.route = catalogFetch.route
           /\ (pageFetch.route = "session") <=> (hasAuth /\ IsAuthenticated)
           /\ pageFetch.route = "plain"
                => (pageFetch.timeout # None /\ catalogFetch.timeout # None)
           /\ pageFetch.verdict = catalogFetch.verdict

\* C11, the verdict alone: both extractors agree on whether the page of a url
\* is available.
C11_SameVerdict ==
    (pageFetch.pos > 0 /\ pageFetch.pos = catalogFetch.pos)
        => pageFetch.verdict = catalogFetch.verdict

====
